---- MODULE Spec2Model ----
(***************************************************************************)
(* bigint-secrets: secure random bytes, random integers in a range, the    *)
(* Miller-Rabin primality test and the generation of probable primes.      *)
(*                                                                         *)
(* Two builds of the library are modelled, chosen by the variable build:   *)
(*   "main"  src/src/main.js (Miller-Rabin only)                           *)
(*   "dist"  the CommonJS build at the head of                             *)
(*           src/dist/bigint-secrets-latest.node.js (trial division by     *)
(*           the first 250 odd primes, then Miller-Rabin)                  *)
(* A third, "browser", is the ES-module build at the tail of the same      *)
(* file, whose randBytes goes through a WebWorker (specification           *)
(* SpecWorker).                                                            *)
(***************************************************************************)
EXTENDS Integers, Sequences, FiniteSets, TLC

(***************************************************************************)
(* Bounds of the model.                                                    *)
(***************************************************************************)
\* isProbablyPrime is called with every w in -MaxNegW..MaxW (and TestVectors)
MaxW == 64
MaxNegW == 5
\* the iterations argument ranges over 1..MaxIterations
MaxIterations == 2
\* prime is called with every bitLength in 8..MaxBitLength
MaxBitLength == 9
\* randBetween is called with every max in 0..MaxMax and min in 0..MaxMin
MaxMax == 10
MaxMin == 3
\* randBytes is called with every byteLength in 0..MaxBytes
MaxBytes == 1
\* at most MaxCalls concurrent randBytes calls are made
MaxCalls == 3
\* the counter of isProbablyPrime is followed down to -MaxOverrun
MaxOverrun == 2

(***************************************************************************)
(* JavaScript arithmetic on BigInt and number values.                      *)
(***************************************************************************)
\* x / y on BigInt, y > 0: the quotient truncated towards zero
JsDiv(x, y) == IF x >= 0 THEN x \div y ELSE -((-x) \div y)

\* x % y on BigInt, y > 0: the remainder takes the sign of x
JsRem(x, y) == IF x >= 0 THEN x % y ELSE -((-x) % y)

\* x >> 1 on BigInt and number: arithmetic shift, rounding towards -infinity
Shr1(x) == x \div 2

\* x & y on two's-complement integers, y >= 0
RECURSIVE BitAnd(_, _)
BitAnd(x, y) ==
    IF y = 0 THEN 0
    ELSE 2 * BitAnd(x \div 2, y \div 2) + (IF x % 2 = 1 /\ y % 2 = 1 THEN 1 ELSE 0)

\* x | y on non-negative integers
RECURSIVE BitOr(_, _)
BitOr(x, y) ==
    IF x = 0 THEN y
    ELSE IF y = 0 THEN x
    ELSE 2 * BitOr(x \div 2, y \div 2) + (IF x % 2 = 1 \/ y % 2 = 1 THEN 1 ELSE 0)

(***************************************************************************)
(* Helpers of the library.                                                 *)
(***************************************************************************)
\* the values of one byte of a Buffer / Uint8Array
Byte == 0..255

\* every content crypto.randomFillSync / getRandomValues can give a buffer
\* of n bytes (a fractional length is truncated by the allocation)
Buffers(n) == [1..n -> Byte]

\* fromBuffer(buf): ret = (ret << 8) + byte, over the bytes in order
RECURSIVE FromBufferFrom(_, _, _)
FromBufferFrom(buf, i, acc) ==
    IF i > Len(buf) THEN acc
    ELSE FromBufferFrom(buf, i + 1, acc * 256 + buf[i])

\* mutant of fromBuffer: the bytes are read least significant first
fromBufferLittleEndian(buf) ==
    FromBufferFrom([i \in 1 .. Len(buf) |-> buf[Len(buf) + 1 - i]], 1, 0)

fromBuffer(buf) == FromBufferFrom(buf, 1, 0)

\* bitLength(a): bits = 1; do { bits++ } while ((a >>= 1) > 1)
RECURSIVE BitLengthLoop(_, _)
BitLengthLoop(a, bits) ==
    IF Shr1(a) > 1 THEN BitLengthLoop(Shr1(a), bits + 1) ELSE bits + 1

bitLength(a) == BitLengthLoop(a, 1)

\* mutant of ForceLength: the top bit is never set
ForceLengthDropped(buf, forceLength) == buf

\* buf[0] = buf[0] | 128 when forceLength (a write past the end of an
\* empty buffer is dropped)
ForceLength(buf, forceLength) ==
    IF forceLength /\ Len(buf) > 0
    THEN [buf EXCEPT ![1] = BitOr(buf[1], 128)]
    ELSE buf

\* modPow(a, b, n) of bigint-mod-arith for b >= 0, n > 0: right-to-left
\* binary exponentiation (the b < 0 branch is not reached: isProbablyPrime
\* passes a negative exponent only for w < 0, whose witness is never drawn)
RECURSIVE ModPowLoop(_, _, _, _)
ModPowLoop(result, x, b, n) ==
    IF b > 0
    THEN ModPowLoop(IF b % 2 = 1 THEN (result * x) % n ELSE result,
                    (x * x) % n, b \div 2, n)
    ELSE result

toZn(a, n) == IF JsRem(a, n) < 0 THEN JsRem(a, n) + n ELSE JsRem(a, n)

modPow(a, b, n) == ModPowLoop(1, toZn(a, n), b, n)

\* the table of the first 250 odd primes of the "dist" build
firstPrimes == <<
    3, 5, 7, 11, 13, 17, 19, 23, 29, 31, 37, 41, 43, 47, 53, 59, 61, 67,
    71, 73, 79, 83, 89, 97, 101, 103, 107, 109, 113, 127, 131, 137, 139,
    149, 151, 157, 163, 167, 173, 179, 181, 191, 193, 197, 199, 211,
    223, 227, 229, 233, 239, 241, 251, 257, 263, 269, 271, 277, 281,
    283, 293, 307, 311, 313, 317, 331, 337, 347, 349, 353, 359, 367,
    373, 379, 383, 389, 397, 401, 409, 419, 421, 431, 433, 439, 443,
    449, 457, 461, 463, 467, 479, 487, 491, 499, 503, 509, 521, 523,
    541, 547, 557, 563, 569, 571, 577, 587, 593, 599, 601, 607, 613,
    617, 619, 631, 641, 643, 647, 653, 659, 661, 673, 677, 683, 691,
    701, 709, 719, 727, 733, 739, 743, 751, 757, 761, 769, 773, 787,
    797, 809, 811, 821, 823, 827, 829, 839, 853, 857, 859, 863, 877,
    881, 883, 887, 907, 911, 919, 929, 937, 941, 947, 953, 967, 971,
    977, 983, 991, 997, 1009, 1013, 1019, 1021, 1031, 1033, 1039, 1049,
    1051, 1061, 1063, 1069, 1087, 1091, 1093, 1097, 1103, 1109, 1117,
    1123, 1129, 1151, 1153, 1163, 1171, 1181, 1187, 1193, 1201, 1213,
    1217, 1223, 1229, 1231, 1237, 1249, 1259, 1277, 1279, 1283, 1289,
    1291, 1297, 1301, 1303, 1307, 1319, 1321, 1327, 1361, 1367, 1373,
    1381, 1399, 1409, 1423, 1427, 1429, 1433, 1439, 1447, 1451, 1453,
    1459, 1471, 1481, 1483, 1487, 1489, 1493, 1499, 1511, 1523, 1531,
    1543, 1549, 1553, 1559, 1567, 1571, 1579, 1583, 1597 >>

\* the value of a local that is declared and not (or no longer) assigned
undefined == -1

\* what a promise is rejected with: the failure of the byte source, and
\* the TypeError of reading a property of undefined
NoError == "none"

SourceError == "source failure"

TypeError == "TypeError"

\* randBytes when the byte source fails.  src/main.js: randomFillSync
\* throws inside the async function, whose promise is rejected.  The node
\* build: randomFill calls resolver(err) without a buffer; resolver does
\* not read err, and with forceLength it throws on buf[0] outside every
\* promise, which stays pending; without, it resolves to undefined
RandBytesOnFailure(bld, forceLength) ==
    IF bld = "main" THEN "rejects"
    ELSE IF forceLength THEN "uncaught"
    ELSE "resolves undefined"

(***************************************************************************)
(* randBetween: the sampling parameters and the rejection test.            *)
(***************************************************************************)
\* byteLength = bitLen >> 3, plus one when bits remain
ByteLengthOf(mx) ==
    LET bitLen == bitLength(mx)
        whole == bitLen \div 8
    IN  IF bitLen - whole * 8 > 0 THEN whole + 1 ELSE whole

\* remaining = bitLen - byteLength * 8, taken before the increment
RemainingOf(mx) == bitLength(mx) - (bitLength(mx) \div 8) * 8

\* mutant of ExtraBitsOf: the mask is 2 ** remaining, one too many
ExtraBitsOffByOne(rem) == IF rem > 0 THEN 2 ^ rem ELSE undefined

\* extraBits = 2 ** remaining - 1, set only if remaining > 0
ExtraBitsOf(rem) == IF rem > 0 THEN 2 ^ rem - 1 ELSE undefined

\* if (remaining > 0) buf[0] = buf[0] & extraBits
Masked(buf, rem, mask) ==
    IF rem > 0 THEN [buf EXCEPT ![1] = BitAnd(buf[1], mask)] ELSE buf

\* one pass of the loop body: mask the first byte, read the buffer
Sample(buf, rem, mask) == fromBuffer(Masked(buf, rem, mask))

\* mutant of Rejected: the lower bound is not tested
RejectedAboveOnly(r, mx, mn) == r > mx

\* mutant of Rejected: max itself is turned down
RejectedStrict(r, mx, mn) == r >= mx \/ r < mn

\* the loop condition: while (rnd > max || rnd < min)
Rejected(r, mx, mn) == r > mx \/ r < mn

(***************************************************************************)
(* isProbablyPrime: prefilter, trial division, Miller-Rabin round.         *)
(***************************************************************************)
\* mutant of Prefilter: 2 is not singled out and falls with the even values
PrefilterWithoutTwo(wv) ==
    IF BitAnd(wv, 1) = 0 \/ wv = 1 THEN "composite" ELSE "test"

\* w === 2 -> true; (w & 1) === 0 || w === 1 -> false; otherwise go on
Prefilter(wv) ==
    IF wv = 2 THEN "prime"
    ELSE IF BitAnd(wv, 1) = 0 \/ wv = 1 THEN "composite"
    ELSE "test"

\* for (i = 0; i < firstPrimes.length && firstPrimes[i] <= w; i++): the
\* entries lo..hi in the order of the table, split in halves to keep the
\* evaluation shallow.  "stop": an entry exceeds w and ends the scan;
\* "next": the scan runs past hi
RECURSIVE TrialDivisionScan(_, _, _)
TrialDivisionScan(wv, lo, hi) ==
    IF lo > hi THEN "next"
    ELSE IF lo = hi
    THEN IF ~(firstPrimes[lo] <= wv) THEN "stop"
         ELSE IF wv = firstPrimes[lo] THEN "prime"
         ELSE IF JsRem(wv, firstPrimes[lo]) = 0 THEN "composite"
         ELSE "next"
    ELSE LET mid == (lo + hi) \div 2
             left == TrialDivisionScan(wv, lo, mid)
         IN  IF left # "next" THEN left ELSE TrialDivisionScan(wv, mid + 1, hi)

\* mutant of TrialDivisionFrom: the first entry of the table is skipped
TrialDivisionFromSecond(wv, i) ==
    LET out == TrialDivisionScan(wv, i + 1, Len(firstPrimes))
    IN  IF out \in {"prime", "composite"} THEN out ELSE "test"

\* mutant of TrialDivisionFrom: the last entry of the table is not reached
TrialDivisionFromShort(wv, i) ==
    LET out == TrialDivisionScan(wv, i, Len(firstPrimes) - 1)
    IN  IF out \in {"prime", "composite"} THEN out ELSE "test"

TrialDivisionFrom(wv, i) ==
    LET out == TrialDivisionScan(wv, i, Len(firstPrimes))
    IN  IF out \in {"prime", "composite"} THEN out ELSE "test"

\* only the "dist" build divides by the table
TrialDivision(bld, wv) == IF bld = "dist" THEN TrialDivisionFrom(wv, 1) ELSE "test"

\* what happens before the first witness is drawn
EarlyVerdict(bld, wv) ==
    IF Prefilter(wv) # "test" THEN Prefilter(wv) ELSE TrialDivision(bld, wv)

\* a = 0, d = w - 1; while (d % 2 === 0) { d /= 2; ++a }
RECURSIVE FactorTwos(_, _)
FactorTwos(d, av) ==
    IF JsRem(d, 2) = 0 THEN FactorTwos(JsDiv(d, 2), av + 1) ELSE av

\* m = (w - 1) / 2 ** a
OddPart(wv) == JsDiv(wv - 1, 2 ^ FactorTwos(wv - 1, 0))

\* mutant of SquaringLoop: a square equal to 1 passes the round instead
\* of breaking out of the loop
RECURSIVE SquaringLoopOnePasses(_, _, _, _)
SquaringLoopOnePasses(z, j, av, wv) ==
    IF j < av
    THEN LET z2 == modPow(z, 2, wv)
         IN  IF z2 = wv - 1 \/ z2 = 1 THEN "continue"
             ELSE SquaringLoopOnePasses(z2, j + 1, av, wv)
    ELSE "end"

\* mutant of SquaringLoop: the last squaring is left out
RECURSIVE SquaringLoopOneFewer(_, _, _, _)
SquaringLoopOneFewer(z, j, av, wv) ==
    IF j < av - 1
    THEN LET z2 == modPow(z, 2, wv)
         IN  IF z2 = wv - 1 THEN "continue"
             ELSE IF z2 = 1 THEN "break"
             ELSE SquaringLoopOneFewer(z2, j + 1, av, wv)
    ELSE "end"

\* for (j = 1; j < a; j++) { z = z^2 mod w; z === w-1 -> continue loop;
\* z === 1 -> break }
RECURSIVE SquaringLoop(_, _, _, _)
SquaringLoop(z, j, av, wv) ==
    IF j < av
    THEN LET z2 == modPow(z, 2, wv)
         IN  IF z2 = wv - 1 THEN "continue"
             ELSE IF z2 = 1 THEN "break"
             ELSE SquaringLoop(z2, j + 1, av, wv)
    ELSE "end"

\* the number of times the for loop runs z = modPow(z, 2, w)
RECURSIVE SquaringsDone(_, _, _, _)
SquaringsDone(z, j, av, wv) ==
    IF j < av
    THEN LET z2 == modPow(z, 2, wv)
         IN  IF z2 = wv - 1 \/ z2 = 1 THEN 1
             ELSE 1 + SquaringsDone(z2, j + 1, av, wv)
    ELSE 0

\* mutant of Round: z = w - 1 is not accepted before the squarings
RoundWithoutMinusOne(bv, mv, av, wv) ==
    LET z == modPow(bv, mv, wv)
    IN  IF z = 1 THEN "continue"
        ELSE IF SquaringLoop(z, 1, av, wv) = "continue" THEN "continue"
        ELSE "composite"

\* the body of the labelled do-while for witness bv: "continue" when the
\* round passes, "composite" when it reaches return false
Round(bv, mv, av, wv) ==
    LET z == modPow(bv, mv, wv)
    IN  IF z = 1 \/ z = wv - 1 THEN "continue"
        ELSE IF SquaringLoop(z, 1, av, wv) = "continue" THEN "continue"
        ELSE "composite"

\* mutant of LoopAgain: the counter is tested before it is decremented
LoopAgainPostDecrement(it) == it # 0

\* mutant of LoopAgain: the loop goes on only while the counter is positive
LoopAgainWhilePositive(it) == it - 1 > 0

\* while (--iterations): the decremented counter is not zero
LoopAgain(it) == it - 1 # 0

\* the bounds of the witness: randBetween(w - 1, 2)
WitnessMax(wv) == wv - 1

WitnessMin == 2

\* mutant of PrimeByteLength: the fraction of a byte is rounded up
PrimeByteLengthRoundedUp(bits) == (bits + 7) \div 8

\* byteLength of prime's candidate: randBytes(bitLength / 8, true), the
\* fraction dropped by the buffer allocation
PrimeByteLength(bits) == bits \div 8

\* mutant of PrimeRetry: the negation is lost
PrimeRetryInverted(verdict) == verdict

\* prime's loop condition: while (! await isProbablyPrime(rnd, iterations))
PrimeRetry(verdict) == ~verdict

(***************************************************************************)
(* The inputs the calls are made with.                                     *)
(***************************************************************************)
\* known primes and pseudoprimes beyond MaxW; 1601 is the first prime past
\* the table of the "dist" build
TestVectors == {97, 341, 997, 1601}

WInputs == (-MaxNegW .. MaxW) \cup TestVectors

\* 1597 * 1597 and 1597 * 1601: composites whose least prime factor is the
\* last entry of the table.  Only the build that divides by the table is
\* given them: the other takes them into rounds whose squares are beyond
\* the integers of the model
BoundVectors == {2550409, 2556797}

WInputsOf(bld) == IF bld = "dist" THEN WInputs \cup BoundVectors ELSE WInputs

\* the iterations argument of a public call: the values the documentation
\* asks for, and 0
Iterations == 0 .. MaxIterations

\* the iterations argument prime is called with
PrimeIterations == 1 .. MaxIterations

\* the iterations argument of a public call on wv: 0 is tried on the w
\* whose witnesses are read from a single byte
IterationsOf(wv) == IF wv < 2 ^ 8 THEN Iterations ELSE PrimeIterations

BitLengths == 8 .. MaxBitLength

\* <<max, min>> pairs, among them ranges that need a second byte
RangeInputs ==
    {<<mx, mn>> : mx \in 0 .. MaxMax, mn \in 0 .. MaxMin}
        \cup {<<127, 1>>, <<128, 1>>, <<255, 0>>, <<256, 254>>, <<300, 298>>}

\* the ranges whose max has at most 8 bits
OneByteRanges == {r \in RangeInputs : r[1] < 2 ^ 8}

Builds == {"main", "dist"}

\* the byteLength of the concurrent randBytes calls
WorkerByteLengths == {0, 1}

\* the bytes the source gives the buffers of the concurrent calls
FillBytes == {0, 255}

Fills(n) == [1 .. n -> FillBytes]

(***************************************************************************)
(* State.  One public call is in progress at a time; stack holds the       *)
(* names of the active async functions, outermost first, and pc the        *)
(* await at which the innermost one is suspended.                          *)
(***************************************************************************)
VARIABLES
    build,            \* which build of the library is loaded
    stack,            \* active calls, outermost first
    pc,               \* "idle", "rb_sample", "ipp_round", "p_sample", "p_test", "done",
                      \* "rejected", "uncaught"
    ret,              \* the value the last returned call resolved to
    randBytesCalled,  \* whether the public call in progress has asked for random bytes
    err,              \* the failure the byte source reported to the call in progress
    checking,         \* the call in progress is the test's isProbablyPrime(prime)
    \* prime(bitLength, iterations)
    primeBits, primeIterations, primeRnd,
    \* isProbablyPrime(w, iterations), the value iterations had at the call
    \* and the number of witnesses drawn since
    w, iterations, a, m, b, iterationsAtCall, drawn,
    \* randBetween(max, min); bufRead is its buf when rnd was read from it
    max, min, byteLength, remaining, extraBits, rnd, bufRead,
    \* concurrent randBytes calls: the browser build's getRandomValuesWorker
    \* closure (currId, workerCallbacks), the messages to and from its
    \* worker, the node build's randomFill requests in flight, the number of
    \* calls made and the promises resolved so far
    currId, workerCallbacks, toWorker, fromWorker, filling, nCalls, resolved

ctlVars == <<stack, pc, ret, randBytesCalled, err, checking>>
primeVars == <<primeBits, primeIterations, primeRnd>>
ippVars == <<w, iterations, a, m, b, iterationsAtCall, drawn>>
rbVars == <<max, min, byteLength, remaining, extraBits, rnd, bufRead>>
workerVars == <<currId, workerCallbacks, toWorker, fromWorker, filling, nCalls, resolved>>
vars == <<build, ctlVars, primeVars, ippVars, rbVars, workerVars>>

NoPrimeFrame ==
    primeBits' = undefined /\ primeIterations' = undefined /\ primeRnd' = undefined

NoIppFrame ==
    w' = undefined /\ iterations' = undefined /\ a' = undefined
        /\ m' = undefined /\ b' = undefined
        /\ iterationsAtCall' = undefined /\ drawn' = undefined

NoRbFrame ==
    max' = undefined /\ min' = undefined /\ byteLength' = undefined
        /\ remaining' = undefined /\ extraBits' = undefined /\ rnd' = undefined
        /\ bufRead' = undefined

WorkerInit ==
    currId = 0 /\ workerCallbacks = <<>> /\ toWorker = <<>> /\ fromWorker = <<>>
        /\ filling = {} /\ nCalls = 0 /\ resolved = <<>>

Loaded ==
    /\ stack = <<>> /\ pc = "idle" /\ ret = undefined
    /\ randBytesCalled = FALSE /\ err = NoError /\ checking = FALSE
    /\ primeBits = undefined /\ primeIterations = undefined /\ primeRnd = undefined
    /\ w = undefined /\ iterations = undefined /\ a = undefined
    /\ m = undefined /\ b = undefined
    /\ iterationsAtCall = undefined /\ drawn = undefined
    /\ max = undefined /\ min = undefined /\ byteLength = undefined
    /\ remaining = undefined /\ extraBits = undefined /\ rnd = undefined
    /\ bufRead = undefined
    /\ WorkerInit

Init == build \in Builds /\ Loaded

(***************************************************************************)
(* Entering and leaving the async functions.                               *)
(***************************************************************************)
\* randBetween up to its first await: the sampling parameters, and the
\* first randBytes(byteLength) request, on whose result it is suspended
RandBetweenEnter(mx, mn) ==
    /\ randBytesCalled' = TRUE
    /\ max' = mx /\ min' = mn
    /\ byteLength' = ByteLengthOf(mx)
    /\ remaining' = RemainingOf(mx)
    /\ extraBits' = ExtraBitsOf(RemainingOf(mx))
    /\ rnd' = undefined
    /\ bufRead' = undefined

\* isProbablyPrime resolves to verdict v; stk is the stack of its caller.
\* The locals wv .. bv of a public call stay readable until the caller
\* takes the result; those of a call made by prime end with the call.
IsProbablyPrimeReturn(v, stk, wv, itv, av, mv, bv) ==
    /\ ret' = v
    /\ IF stk = <<>>
       THEN /\ stack' = <<"isProbablyPrime">> /\ pc' = "done"
            /\ w' = wv /\ iterations' = itv /\ a' = av /\ m' = mv /\ b' = bv
       ELSE /\ stack' = stk /\ pc' = "p_test"
            /\ w' = undefined /\ iterations' = undefined /\ a' = undefined
            /\ m' = undefined /\ b' = undefined

\* isProbablyPrime(wv, itv) up to its first await or its early return;
\* called: whether the public call in progress has asked for bytes so far
IsProbablyPrimeEnter(wv, itv, stk, called) ==
    IF EarlyVerdict(build, wv) # "test"
       THEN /\ UNCHANGED rbVars
            /\ randBytesCalled' = called
            /\ iterationsAtCall' = (IF stk = <<>> THEN itv ELSE undefined)
            /\ drawn' = (IF stk = <<>> THEN 0 ELSE undefined)
            /\ IsProbablyPrimeReturn(EarlyVerdict(build, wv) = "prime", stk,
                                     wv, itv, undefined, undefined, undefined)
       ELSE /\ w' = wv /\ iterations' = itv /\ b' = undefined
            /\ iterationsAtCall' = itv /\ drawn' = 0
            /\ a' = FactorTwos(wv - 1, 0)
            /\ m' = OddPart(wv)
            /\ RandBetweenEnter(WitnessMax(wv), WitnessMin)
            /\ stack' = stk \o <<"isProbablyPrime", "randBetween">>
            /\ pc' = "rb_sample"
            /\ UNCHANGED ret

(***************************************************************************)
(* The public calls.                                                       *)
(***************************************************************************)
\* randBytes(n, forceLength), on a byte source that works or fails
CallRandBytes ==
    /\ pc = "idle"
    /\ \E n \in 0 .. MaxBytes, forceLength \in BOOLEAN :
         \/ \E buf \in Buffers(n) :
               /\ ret' = ForceLength(buf, forceLength)
               /\ pc' = "done"
               /\ err' = NoError
         \/ /\ err' = SourceError
            /\ LET out == RandBytesOnFailure(build, forceLength)
               IN  /\ pc' = (IF out = "rejects" THEN "rejected"
                             ELSE IF out = "uncaught" THEN "uncaught"
                             ELSE "done")
                   /\ ret' = (IF out = "rejects" THEN SourceError ELSE undefined)
    /\ stack' = <<"randBytes">>
    /\ randBytesCalled' = TRUE
    /\ UNCHANGED <<build, checking, primeVars, ippVars, rbVars, workerVars>>

\* randBetween(max, min) with <<max, min>> one of ranges
RandBetweenCall(ranges) ==
    /\ pc = "idle"
    /\ \E r \in ranges : RandBetweenEnter(r[1], r[2])
    /\ stack' = <<"randBetween">> /\ pc' = "rb_sample"
    /\ UNCHANGED <<build, ret, err, checking, primeVars, ippVars, workerVars>>

CallRandBetween == RandBetweenCall(RangeInputs)

CallIsProbablyPrime ==
    /\ pc = "idle"
    /\ \E wv \in WInputsOf(build) : \E itv \in IterationsOf(wv) :
         IsProbablyPrimeEnter(wv, itv, <<>>, FALSE)
    /\ UNCHANGED <<build, err, checking, primeVars, workerVars>>

CallPrime ==
    /\ pc = "idle"
    /\ \E bits \in BitLengths, itv \in PrimeIterations :
         primeBits' = bits /\ primeIterations' = itv
    /\ primeRnd' = 0
    /\ randBytesCalled' = TRUE
    /\ stack' = <<"prime">> /\ pc' = "p_sample"
    /\ UNCHANGED <<build, ret, err, checking, ippVars, rbVars, workerVars>>

(***************************************************************************)
(* The steps between awaits.                                               *)
(***************************************************************************)
\* randBetween: one pass of do { buf = await randBytes(byteLength); ... }
\* while (rnd > max || rnd < min), from the buffer randBytes resolves to.
\* A rejected rnd is overwritten by the next pass before anything reads
\* it, and is not kept in the state.
RandBetweenSample ==
    /\ pc = "rb_sample"
    /\ \E buf \in Buffers(byteLength) :
         LET r == Sample(buf, remaining, extraBits)
         IN  IF Rejected(r, max, min)
             THEN UNCHANGED <<stack, pc, ret, randBytesCalled, ippVars, rbVars>>
             ELSE IF stack = <<"randBetween">>
             THEN /\ rnd' = r /\ ret' = r /\ pc' = "done"
                  /\ bufRead' = Masked(buf, remaining, extraBits)
                  /\ UNCHANGED <<stack, randBytesCalled, ippVars, max, min,
                                 byteLength, remaining, extraBits>>
             ELSE \* the witness of a Miller-Rabin round: let b = await ...
                  /\ b' = r /\ pc' = "ipp_round"
                  /\ drawn' = drawn + 1
                  /\ stack' = SubSeq(stack, 1, Len(stack) - 1)
                  /\ NoRbFrame
                  /\ UNCHANGED <<ret, randBytesCalled, w, iterations, a, m,
                                 iterationsAtCall>>
    /\ UNCHANGED <<build, err, checking, primeVars, workerVars>>

\* the byte source fails on the randBytes that randBetween or prime awaits.
\* A rejection passes through every await up to the public call.  In the
\* node build randBetween is resumed with undefined and throws a TypeError
\* on buf[0] or buf.values(); prime, which asks with forceLength, is never
\* resumed
AwaitedRandBytesFails ==
    /\ pc \in {"rb_sample", "p_sample"}
    /\ err' = SourceError
    /\ LET out == RandBytesOnFailure(build, pc = "p_sample")
       IN  IF out = "uncaught"
           THEN pc' = "uncaught" /\ UNCHANGED <<stack, ret>>
           ELSE /\ pc' = "rejected"
                /\ stack' = <<stack[1]>>
                /\ ret' = (IF out = "rejects" THEN SourceError ELSE TypeError)
    /\ UNCHANGED <<build, randBytesCalled, checking, primeVars, ippVars, rbVars,
                   workerVars>>

\* isProbablyPrime: the rest of a round once its witness b is drawn, and
\* the loop's while (--iterations)
MillerRabinRound ==
    /\ pc = "ipp_round"
    /\ Round(b, m, a, w) = "composite" \/ iterations - 1 >= -MaxOverrun
    /\ LET stk == SubSeq(stack, 1, Len(stack) - 1)
       IN  IF Round(b, m, a, w) = "composite"
           THEN /\ IsProbablyPrimeReturn(FALSE, stk, w, iterations, a, m, b)
                /\ IF stk = <<>>
                   THEN UNCHANGED <<iterationsAtCall, drawn>>
                   ELSE iterationsAtCall' = undefined /\ drawn' = undefined
                /\ UNCHANGED <<rbVars, randBytesCalled>>
           ELSE IF LoopAgain(iterations)
           THEN /\ iterations' = iterations - 1
                /\ b' = undefined
                /\ RandBetweenEnter(WitnessMax(w), WitnessMin)
                /\ stack' = stack \o <<"randBetween">>
                /\ pc' = "rb_sample"
                /\ UNCHANGED <<ret, w, a, m, iterationsAtCall, drawn>>
           ELSE /\ IsProbablyPrimeReturn(TRUE, stk, w, iterations - 1, a, m, b)
                /\ IF stk = <<>>
                   THEN UNCHANGED <<iterationsAtCall, drawn>>
                   ELSE iterationsAtCall' = undefined /\ drawn' = undefined
                /\ UNCHANGED <<rbVars, randBytesCalled>>
    /\ UNCHANGED <<build, err, checking, primeVars, workerVars>>

\* prime: rnd = fromBuffer(await randBytes(bitLength / 8, true)), then the
\* call of isProbablyPrime(rnd, iterations)
PrimeSample ==
    /\ pc = "p_sample"
    /\ \E buf \in Buffers(PrimeByteLength(primeBits)) :
         LET r == fromBuffer(ForceLength(buf, TRUE))
         IN  /\ primeRnd' = r
             /\ IsProbablyPrimeEnter(r, primeIterations, <<"prime">>, TRUE)
    /\ UNCHANGED <<build, err, checking, primeBits, primeIterations, workerVars>>

\* prime: the loop condition on the verdict, and return rnd
PrimeTest ==
    /\ pc = "p_test"
    /\ IF PrimeRetry(ret)
       THEN pc' = "p_sample" /\ ret' = undefined
       ELSE pc' = "done" /\ ret' = primeRnd
    /\ UNCHANGED <<build, stack, randBytesCalled, err, checking, primeVars,
                   ippVars, rbVars, workerVars>>

\* the test: const ret = await primes.isProbablyPrime(prime), on the value
\* prime(bitLength) resolved to
TestPrimeResult ==
    /\ pc = "done" /\ stack = <<"prime">>
    /\ checking' = TRUE
    /\ NoPrimeFrame
    /\ \E itv \in PrimeIterations : IsProbablyPrimeEnter(ret, itv, <<>>, FALSE)
    /\ UNCHANGED <<build, err, workerVars>>

\* the caller takes the result or the rejection; nothing of the call is left
Finish ==
    /\ pc \in {"done", "rejected"}
    /\ stack' = <<>> /\ pc' = "idle" /\ ret' = undefined
    /\ randBytesCalled' = FALSE /\ err' = NoError /\ checking' = FALSE
    /\ NoPrimeFrame /\ NoIppFrame /\ NoRbFrame
    /\ UNCHANGED <<build, workerVars>>

Next ==
    \/ CallRandBytes
    \/ CallRandBetween
    \/ CallIsProbablyPrime
    \/ CallPrime
    \/ RandBetweenSample
    \/ AwaitedRandBytesFails
    \/ MillerRabinRound
    \/ PrimeSample
    \/ PrimeTest
    \/ TestPrimeResult
    \/ Finish

Spec == Init /\ [][Next]_vars

(***************************************************************************)
(* randBetween alone, on a byte source that never fails and is fair: a     *)
(* pass of the loop on a buffer that is accepted, when there is one, is    *)
(* taken in the end.  The ranges are those read from a single byte.        *)
(***************************************************************************)
CallRandBetweenOneByte == RandBetweenCall(OneByteRanges)

RandBetweenResolves == pc = "rb_sample" /\ pc' = "done" /\ RandBetweenSample

NextRandBetween ==
    \/ CallRandBetweenOneByte
    \/ RandBetweenSample
    \/ Finish

SpecRandBetween == Init /\ [][NextRandBetween]_vars /\ WF_vars(RandBetweenResolves)

(***************************************************************************)
(* Concurrent calls of randBytes.  In the browser build randBytes hands    *)
(* its buffer and its resolver to getRandomValuesWorker, which keeps the   *)
(* resolver in workerCallbacks under the next id and posts the buffer to   *)
(* a WebWorker; the worker fills it and posts it back with the id.         *)
(***************************************************************************)
\* mutant of UsesWorker: every build goes through the worker
UsesWorkerAlways(bld) == TRUE

\* which randBytes the build holds: the { // browser } block calls
\* getRandomValuesWorker, the { // node } block crypto.randomFill
UsesWorker(bld) == bld = "browser"

\* src/main.js fills the buffer in place with randomFillSync
FillsSync(bld) == bld = "main"

\* the resolver of call k: (err, buf) => { if (forceLength) ...; resolve(buf) }
Resolver(k, forceLength) == [call |-> k, forceLength |-> forceLength]

\* resolver cb is run with buffer buf
Resolve(cb, buf) ==
    resolved' = Append(resolved, [call |-> cb.call,
                                  buf |-> ForceLength(buf, cb.forceLength)])

\* workerCallbacks[currId] = cb
PutCallback(cbs, id, cb) ==
    [i \in DOMAIN cbs \cup {id} |-> IF i = id THEN cb ELSE cbs[i]]

\* mutant of DeleteCallback: the entry is left in the registry
DeleteCallbackKept(cbs, id) == cbs

\* delete workerCallbacks[id]
DeleteCallback(cbs, id) == [i \in DOMAIN cbs \ {id} |-> cbs[i]]

\* randBytes(byteLength, forceLength) up to the point where its promise
\* is left pending (or, in src/main.js, is resolved)
RandBytesCall ==
    /\ nCalls < MaxCalls
    /\ nCalls' = nCalls + 1
    /\ \E n \in WorkerByteLengths, forceLength \in BOOLEAN :
         LET cb == Resolver(nCalls, forceLength)
         IN  IF UsesWorker(build)
             THEN \* appendCallback(buf, cb)
                  /\ workerCallbacks' = PutCallback(workerCallbacks, currId, cb)
                  /\ toWorker' = Append(toWorker, [buf |-> [i \in 1 .. n |-> 0],
                                                   id |-> currId])
                  /\ currId' = currId + 1
                  /\ UNCHANGED <<fromWorker, filling, resolved>>
             ELSE IF FillsSync(build)
             THEN /\ \E buf \in Fills(n) : Resolve(cb, buf)
                  /\ UNCHANGED <<currId, workerCallbacks, toWorker, fromWorker, filling>>
             ELSE \* crypto.randomFill(buf, resolver)
                  /\ filling' = filling \cup {[cb |-> cb, n |-> n]}
                  /\ UNCHANGED <<currId, workerCallbacks, toWorker, fromWorker, resolved>>
    /\ UNCHANGED <<build, ctlVars, primeVars, ippVars, rbVars>>

\* node: a randomFill request completes and runs its callback
RandomFillDone ==
    /\ \E f \in filling :
         /\ filling' = filling \ {f}
         /\ \E buf \in Fills(f.n) : Resolve(f.cb, buf)
    /\ UNCHANGED <<build, ctlVars, primeVars, ippVars, rbVars, currId,
                   workerCallbacks, toWorker, fromWorker, nCalls>>

\* the worker's onmessage: getRandomValues(ev.data.buf), postMessage back
WorkerOnMessage ==
    /\ toWorker # <<>>
    /\ toWorker' = Tail(toWorker)
    /\ \E buf \in Fills(Len(Head(toWorker).buf)) :
         fromWorker' = Append(fromWorker, [buf |-> buf, id |-> Head(toWorker).id])
    /\ UNCHANGED <<build, ctlVars, primeVars, ippVars, rbVars, currId,
                   workerCallbacks, filling, nCalls, resolved>>

\* worker.onmessage on the page: run and delete the callback of ev.data.id
PageOnMessage ==
    /\ fromWorker # <<>>
    /\ fromWorker' = Tail(fromWorker)
    /\ LET ev == Head(fromWorker)
       IN  IF ev.id \in DOMAIN workerCallbacks
           THEN /\ Resolve(workerCallbacks[ev.id], ev.buf)
                /\ workerCallbacks' = DeleteCallback(workerCallbacks, ev.id)
           ELSE UNCHANGED <<workerCallbacks, resolved>>
    /\ UNCHANGED <<build, ctlVars, primeVars, ippVars, rbVars, currId,
                   toWorker, filling, nCalls>>

NextWorker ==
    \/ RandBytesCall
    \/ RandomFillDone
    \/ WorkerOnMessage
    \/ PageOnMessage

InitWorker == build \in Builds \cup {"browser"} /\ Loaded

SpecWorker == InitWorker /\ [][NextWorker]_vars

(***************************************************************************)
(* Number theory the properties are stated with.                           *)
(***************************************************************************)
\* n has a divisor e with d <= e and e * e <= n; the candidates are tried
\* in runs of 32
RECURSIVE HasDivisorFrom(_, _)
HasDivisorFrom(n, d) ==
    IF d * d > n THEN FALSE
    ELSE IF \E e \in d .. d + 31 : e * e <= n /\ n % e = 0 THEN TRUE
    ELSE HasDivisorFrom(n, d + 32)

IsPrime(n) == n >= 2 /\ ~HasDivisorFrom(n, 2)

IsComposite(n) == n > 1 /\ ~IsPrime(n)

\* x^e mod n, by halving the exponent
RECURSIVE PowMod(_, _, _)
PowMod(x, e, n) ==
    IF e = 0 THEN 1 % n
    ELSE LET h == PowMod(x, e \div 2, n)
         IN  IF e % 2 = 0 THEN (h * h) % n ELSE (((h * h) % n) * (x % n)) % n

\* n - 1 = 2^TwoAdic(n) * OddFactor(n) with OddFactor(n) odd, n >= 3 odd
TwoAdic(n) == CHOOSE s \in 0 .. n : (n - 1) % (2 ^ s) = 0 /\ (n - 1) % (2 ^ (s + 1)) # 0

OddFactor(n) == (n - 1) \div (2 ^ TwoAdic(n))

\* x is a strong liar for the odd n >= 3: n is a strong probable prime to
\* the base x
StrongLiar(x, n) ==
    \/ PowMod(x, OddFactor(n), n) = 1
    \/ \E r \in 0 .. TwoAdic(n) - 1 : PowMod(x, OddFactor(n) * 2 ^ r, n) = n - 1

\* a public call of the named function has resolved
Returned(f) == pc = "done" /\ stack = <<f>>

\* the number of buffers the pending randBytes can resolve to that the
\* loop of randBetween turns into v
Draws(v) ==
    Cardinality({buf \in Buffers(byteLength) : Sample(buf, remaining, extraBits) = v})

\* no buffer ends the loop of the suspended randBetween
NeverAccepts ==
    /\ pc = "rb_sample"
    /\ \A buf \in Buffers(byteLength) : Rejected(Sample(buf, remaining, extraBits), max, min)

(***************************************************************************)
(* Properties.                                                             *)
(***************************************************************************)
\* C1: for max >= min >= 0 every value randBetween(max, min) resolves to
\* lies in [min, max]; this holds of the public call and of the witness
\* isProbablyPrime draws with randBetween(w - 1, 2)
C1_RandBetweenInRange ==
    /\ (Returned("randBetween") /\ max >= min /\ min >= 0)
          => (min <= ret /\ ret <= max /\ ret = rnd)
    /\ (pc = "ipp_round" /\ WitnessMax(w) >= WitnessMin)
          => (WitnessMin <= b /\ b <= WitnessMax(w))

\* a two-byte draw was accepted strictly inside [298, 300]
C1_Witness == Returned("randBetween") /\ max = 300 /\ min = 298 /\ ret = 299

\* C2: for a bitLength that is a positive multiple of 8 every value prime
\* resolves to has exactly bitLength bits
C2_PrimeHasBitLength ==
    (Returned("prime") /\ primeBits > 0 /\ primeBits % 8 = 0)
       => (2 ^ (primeBits - 1) <= ret /\ ret < 2 ^ primeBits)

C2_Witness == Returned("prime") /\ primeBits = 8 /\ ret = 251

\* C3: isProbablyPrime resolves to true for every prime w >= 3, whichever
\* witnesses are drawn, called by the user or by prime
C3_NoFalseNegative ==
    /\ (Returned("isProbablyPrime") /\ w >= 3 /\ IsPrime(w)) => ret = TRUE
    /\ (pc = "p_test" /\ primeRnd >= 3 /\ IsPrime(primeRnd)) => ret = TRUE

\* 1601 passed its Miller-Rabin rounds in the build with trial division
C3_Witness ==
    Returned("isProbablyPrime") /\ build = "dist" /\ w = 1601 /\ ret = TRUE
       /\ b # undefined

\* C4 as stated: isProbablyPrime resolves to false for every composite
\* c > 1, whichever witnesses are drawn
C4_CompositeAlwaysRejected ==
    (Returned("isProbablyPrime") /\ IsComposite(w)) => ret = FALSE

\* C4 amended: a composite c > 1 is rejected without a witness when it is
\* even or (trial-division build) a table prime divides it, as with 341;
\* otherwise the verdict is false exactly when the witness of the last
\* round is not a strong liar for c, and true when it is one
C4_CompositeRejectedUnlessLiar ==
    (Returned("isProbablyPrime") /\ IsComposite(w)) =>
        /\ (w % 2 = 0 \/ (build = "dist" /\ \E i \in DOMAIN firstPrimes :
                                               w % firstPrimes[i] = 0))
              => (ret = FALSE /\ b = undefined)
        /\ b # undefined => (ret = FALSE <=> ~StrongLiar(b, w))
        /\ (w = 341 /\ build = "dist") => ret = FALSE

\* 341 = 11 * 31 passed as probably prime on the strong liar 4
C4_Witness ==
    Returned("isProbablyPrime") /\ build = "main" /\ w = 341 /\ b = 4
       /\ ret = TRUE

C7_Prefilter ==
    Returned("isProbablyPrime") =>
        /\ w = 2 => (ret = TRUE /\ ~randBytesCalled)
        /\ w = 1 => (ret = FALSE /\ ~randBytesCalled)
        /\ (w % 2 = 0 /\ w # 2) => (ret = FALSE /\ ~randBytesCalled)

C7_Witness == Returned("isProbablyPrime") /\ w = 2 /\ ret = TRUE /\ ~randBytesCalled

\* C8: for every w <= 1 the call isProbablyPrime(w) resolves, and to
\* false: it is never suspended on a loop that no random buffer ends
C8_NonPositiveRejected ==
    (stack # <<>> /\ stack[1] = "isProbablyPrime" /\ w <= 1) =>
        /\ pc = "done" => ret = FALSE
        /\ ~NeverAccepts

\* C9: every witness b of a Miller-Rabin round satisfies 1 < b < w - 1
C9_WitnessInsideRange == pc = "ipp_round" => (1 < b /\ b < w - 1)

\* C10 as stated: no step of any build changes state that outlives a call
\* of randBytes: the counter currId and the registry workerCallbacks
C10_NothingShared == [][UNCHANGED <<currId, workerCallbacks>>]_vars

\* C10 amended: src/main.js and the node build share nothing between
\* calls; in the browser build every randBytes call takes the next value
\* of the module's counter currId and adds its resolver to the module's
\* registry workerCallbacks
C10_SharedOnlyInBrowser ==
    [][/\ build # "browser" => UNCHANGED <<currId, workerCallbacks>>
       /\ (build = "browser" /\ nCalls' # nCalls) =>
             /\ currId' = currId + 1
             /\ DOMAIN workerCallbacks' = DOMAIN workerCallbacks \cup {currId}]_vars

\* two browser calls are pending on the shared registry
C10_Witness ==
    build = "browser" /\ currId = 2 /\ DOMAIN workerCallbacks = {0, 1}

(***************************************************************************)
(* Further notions the properties are stated with.                         *)
(***************************************************************************)
\* floor(log2(n)) for n >= 1
RECURSIVE FloorLog2(_)
FloorLog2(n) == IF n < 2 THEN 0 ELSE 1 + FloorLog2(n \div 2)

\* the sum of s[i] * 256^(Len(s) - i)
RECURSIVE BigEndianSum(_)
BigEndianSum(s) ==
    IF s = <<>> THEN 0
    ELSE s[1] * 256 ^ (Len(s) - 1) + BigEndianSum(Tail(s))

\* v written as n bytes, most significant first
ToBigEndian(v, n) == [i \in 1 .. n |-> (v \div 256 ^ (n - i)) % 256]

\* an isProbablyPrime call, public or made by prime, is in its rounds
InRounds ==
    /\ pc \in {"rb_sample", "ipp_round"}
    /\ \E i \in DOMAIN stack : stack[i] = "isProbablyPrime"

\* some prime of the table divides n
HasTableFactor(n) == \E i \in DOMAIN firstPrimes : n % firstPrimes[i] = 0

InTable(n) == \E i \in DOMAIN firstPrimes : n = firstPrimes[i]

\* the first value of z in the round on witness b, and whether one of the
\* a - 1 squarings gives w - 1
FirstZ == PowMod(b, m, w)

SquaringGivesMinusOne == \E j \in 1 .. a - 1 : PowMod(b, m * 2 ^ j, w) = w - 1

\* the ids of the requests that wait for the worker or for the page
PendingIds ==
    {toWorker[i].id : i \in DOMAIN toWorker}
        \cup {fromWorker[i].id : i \in DOMAIN fromWorker}

(***************************************************************************)
(* Properties of failures, rounds and helpers.                             *)
(***************************************************************************)
\* C11: when the byte source fails, the public call in progress (randBytes,
\* randBetween, isProbablyPrime or prime) is rejected with that failure; it
\* neither goes on nor resolves
C11_FailurePropagates == err # NoError => (pc = "rejected" /\ ret = err)

\* C12: a call isProbablyPrime(w, iterations >= 1) that reaches its rounds
\* draws one witness per unit of the counter, whichever way a round passes,
\* never more than iterations witnesses, and answers true only after
\* exactly iterations of them, with the counter at zero
C12_ExactlyIterationsRounds ==
    (iterationsAtCall # undefined /\ iterationsAtCall >= 1) =>
        /\ pc = "rb_sample" =>
              (drawn < iterationsAtCall /\ iterations = iterationsAtCall - drawn)
        /\ pc = "ipp_round" =>
              (drawn <= iterationsAtCall /\ iterations = iterationsAtCall - drawn + 1)
        /\ (pc = "done" /\ b # undefined) => drawn <= iterationsAtCall
        /\ (pc = "done" /\ b # undefined /\ ret = TRUE) =>
              (drawn = iterationsAtCall /\ iterations = 0)
        /\ (pc = "done" /\ b # undefined /\ StrongLiar(b, w)) => ret = TRUE

\* both rounds on 97 were drawn and the last passed at once on z = w - 1
C12_Witness ==
    Returned("isProbablyPrime") /\ w = 97 /\ iterationsAtCall = 2 /\ drawn = 2
       /\ b = 96 /\ ret = TRUE

\* C13: in a round whose first z is neither 1 nor w - 1 the loop squares z
\* at most a - 1 times; the round passes if and only if a squaring gives
\* w - 1, and otherwise the call answers false in that round, with no
\* further witness
C13_RoundVerdict ==
    /\ [](pc = "ipp_round" =>
             SquaringsDone(modPow(b, m, w), 1, a, w) <= a - 1)
    /\ [][(pc = "ipp_round" /\ pc' # "ipp_round" /\ FirstZ \notin {1, w - 1}) =>
             IF SquaringGivesMinusOne
             THEN pc' = "rb_sample" \/ (pc' \in {"done", "p_test"} /\ ret' = TRUE)
             ELSE pc' \in {"done", "p_test"} /\ ret' = FALSE]_vars

\* 5^3 mod 13 = 8, whose square is 12 = w - 1: the round on 5 passed
C13_Witness ==
    Returned("isProbablyPrime") /\ w = 13 /\ a = 2 /\ m = 3 /\ b = 5 /\ ret = TRUE

\* C14: in the trial-division build, an odd w >= 3 that is in the table is
\* answered true and one that a smaller table prime divides false, both
\* without asking for random bytes; a w in the rounds is odd and has no
\* factor in the table
C14_TrialDivision ==
    build = "dist" =>
        /\ (stack # <<>> /\ stack[1] = "isProbablyPrime" /\ w >= 3 /\ w % 2 = 1) =>
              /\ InTable(w) => (pc = "done" /\ ret = TRUE /\ ~randBytesCalled)
              /\ (HasTableFactor(w) /\ ~InTable(w)) =>
                    (pc = "done" /\ ret = FALSE /\ ~randBytesCalled)
        /\ (pc = "p_test" /\ InTable(primeRnd)) => ret = TRUE
        /\ (pc = "p_test" /\ HasTableFactor(primeRnd) /\ ~InTable(primeRnd)) =>
              ret = FALSE
        /\ (InRounds /\ w >= 3) => (w % 2 = 1 /\ ~HasTableFactor(w))

\* 997 was found in the table
C14_Witness ==
    Returned("isProbablyPrime") /\ build = "dist" /\ w = 997 /\ ret = TRUE
       /\ ~randBytesCalled /\ b = undefined

\* C15: bitLength(a) = 1 + floor(log2(a)) for every a >= 1, here for the
\* max that randBetween measures
C15_BitLengthIsLog ==
    (pc = "rb_sample" /\ max >= 1) =>
        /\ bitLength(max) = 1 + FloorLog2(max)
        /\ (IF remaining > 0 THEN (byteLength - 1) * 8 + remaining
            ELSE byteLength * 8) = 1 + FloorLog2(max)

\* C16: the value randBetween reads from its buffer is the big-endian sum
\* of the bytes, is below 256^n, and written back as n bytes gives the
\* buffer
C16_FromBufferBigEndian ==
    Returned("randBetween") =>
        /\ rnd = BigEndianSum(bufRead)
        /\ rnd < 256 ^ Len(bufRead)
        /\ ToBigEndian(rnd, Len(bufRead)) = bufRead

\* 299 was read from the bytes 1, 43
C16_Witness == Returned("randBetween") /\ bufRead = <<1, 43>> /\ ret = 299

C18_RandBetweenTermination ==
    /\ []((pc = "rb_sample" /\ max < min) => NeverAccepts)
    /\ [](Returned("randBetween") => max >= min)
    /\ [](stack = <<"randBetween">> => pc \in {"rb_sample", "done"})
    /\ []((pc = "rb_sample" /\ max >= min /\ min >= 0) => ~NeverAccepts)
    /\ (pc = "rb_sample" /\ max >= min /\ min >= 0) ~> Returned("randBetween")

\* randBetween(2, 3) is suspended on a loop no buffer ends
C18_Witness == NeverAccepts /\ stack = <<"randBetween">> /\ max = 2 /\ min = 3

\* C19: a call with iterations <= 0 that reaches its rounds never answers
\* true: the counter is below zero after the first round and every round
\* that passes is followed by another; a true verdict after rounds is
\* given only to a call with iterations >= 1
C19_NonPositiveIterationsLoop ==
    /\ (iterationsAtCall # undefined /\ iterationsAtCall <= 0) =>
          /\ (pc = "done" /\ b # undefined) => (ret = FALSE /\ ~StrongLiar(b, w))
          /\ pc = "rb_sample" => (drawn >= 1 => iterations < 0)
          /\ pc \in {"rb_sample", "ipp_round"} => iterations <= 0
    /\ (Returned("isProbablyPrime") /\ b # undefined /\ ret = TRUE) =>
          iterationsAtCall >= 1

\* the third round of isProbablyPrime(97, 0), with the counter at -2
C19_Witness ==
    pc = "ipp_round" /\ w = 97 /\ iterationsAtCall = 0 /\ drawn = 3
       /\ iterations = -2

C21_ExactBelowBound ==
    /\ (pc = "idle" /\ build = "dist") =>
          \A n \in 3 .. 1600 : IsPrime(n) => InTable(n)
    /\ (build = "dist" /\ stack # <<>> /\ stack[1] = "isProbablyPrime"
           /\ 2 <= w /\ w < 1601 * 1601 /\ iterationsAtCall >= 1) =>
          /\ pc = "done" => (ret = TRUE <=> IsPrime(w))
          /\ InRounds => IsPrime(w)
          /\ IsComposite(w) => (pc = "done" /\ b = undefined /\ ~randBytesCalled)
    /\ (build = "dist" /\ pc = "p_test") => (ret = TRUE <=> IsPrime(primeRnd))

\* 1597 * 1597 was turned down by the last entry of the table
C21_Witness ==
    Returned("isProbablyPrime") /\ build = "dist" /\ w = 2550409
       /\ iterationsAtCall >= 1 /\ ret = FALSE /\ ~randBytesCalled

====
